---- MODULE Spec2Model ----
(***************************************************************************)
(* Optimistic-mutation handlers of the exponential front end.              *)
(*                                                                         *)
(*   SpecBulk     src/src/app/_components/Actions.tsx                      *)
(*                bulkUpdateMutation and handleOverdueBulkReschedule       *)
(*   SpecOutcome  src/src/app/_components/CalendarToggleButton.tsx         *)
(*                OutcomeMultiSelect: updateProject, createOutcomeMutation *)
(*                                                                         *)
(* JavaScript runs one task to completion: a handler and the promise       *)
(* continuations it schedules (microtasks) run before the next network     *)
(* response, timer or user event is delivered.  Every handler is split at  *)
(* the places where the order of its effects matters, and the position of  *)
(* the running task is kept in pc (SpecBulk) and run (SpecOutcome); the    *)
(* events of the environment are enabled only between tasks.               *)
(***************************************************************************)
EXTENDS Integers, Sequences, FiniteSets, TLC

\* ------------------------------------------------------------------------
\* Bounds
\* ------------------------------------------------------------------------
\* number of actions known to the server (and the longest bulk selection)
MaxActions == 2
\* mutate calls of the multi-select after which no user event is taken: a
\* selection needs room for its call, a creation for its call and the chained one
MaxMutations == 2

\* ------------------------------------------------------------------------
\* Values
\* ------------------------------------------------------------------------
Undefined == "undefined"
Null == "null"
None == "none"

\* the data of a cached query: getData() gives undefined until it is fetched
NoData == [defined |-> FALSE, list |-> <<>>]
Data(list) == [defined |-> TRUE, list |-> list]

ActionIds == 1..MaxActions

\* the due date every action has before the reschedule, and the date picked
OldDate == "d0"
NewDate == "d1"

RECURSIVE SeqsOver(_, _)
\* the sequences of distinct elements of S of length at most n
SeqsOver(S, n) ==
  IF n = 0 THEN {<<>>}
  ELSE LET shorter == SeqsOver(S, n - 1)
       IN shorter \cup {Append(s, x) : s \in shorter, x \in S}

Range(s) == {s[k] : k \in DOMAIN s}

Distinct(s) == Cardinality(Range(s)) = Len(s)

\* String.prototype.includes on texts kept as sequences of pieces
Includes(text, part) ==
  \E k \in 0..(Len(text) - Len(part)) :
    SubSeq(text, k + 1, k + Len(part)) = part

\* ------------------------------------------------------------------------
\* Errors a request can be rejected with
\* ------------------------------------------------------------------------
ConnClosed == <<"Server has closed the connection">>
ConnReset == <<"Connection reset by peer">>
UnknownError == <<"Unknown error">>

Err(isError, message) == [isError |-> isError, message |-> message]

\* a plain failure, an empty message, the two connection failures (one of them
\* inside a longer message) and a rejection that is no Error object
Errors ==
  { Err(TRUE, <<"Timeout">>),
    Err(TRUE, <<>>),
    Err(TRUE, <<"Invalid prisma.action.update() invocation: ">> \o ConnClosed),
    Err(TRUE, ConnReset),
    Err(FALSE, <<>>) }

\* ------------------------------------------------------------------------
\* State
\* ------------------------------------------------------------------------
VARIABLES
  \* Actions.tsx
  projectId,     \* the projectId prop of Actions: None on a non-project page
  actionCache,   \* the cached data of action.getAll
  fetching,      \* a fetch of action.getAll is in flight
  serverDue,     \* the due date of every action on the server
  pc,            \* the position of handleOverdueBulkReschedule
  bDate,         \* its argument date
  bIds,          \* its argument actionIds
  bIdx,          \* its loop index i, counted from 1
  results,       \* its results array
  slept,         \* the 100 ms timer fired since the last mutation settled
  muts,          \* the mutations issued so far, the last one being the current
  notes,         \* the notifications on screen, oldest first
  invalidated,   \* how often each action query was invalidated
  \* CalendarToggleButton.tsx, OutcomeMultiSelect
  outcomeIdsBound,  \* the name outcomeIds resolves in updateProject.onMutate
  projectStatus,    \* the projectStatus prop
  currentOutcomes,  \* the currentOutcomes prop
  myOutcomes,       \* the cached data of outcome.getMyOutcomes
  activeProjects,   \* the cached data of project.getActiveWithDetails
  allProjects,      \* the cached data of project.getAll
  refetching,       \* the outcome and project queries with a fetch in flight
  serverOutcomes,   \* the outcomes on the server
  serverProject,    \* the outcome ids of the project on the server
  now,              \* Date.now()
  oms,              \* the mutations of the multi-select started so far
  observed,         \* the updateProject mutation its observer follows
  run,              \* the running task: a mutation and its next step
  did,              \* the handler that ran last, and for which mutation
  \* GoogleCalendarConnect
  mounted,          \* the component is rendered
  isConnected,      \* its isConnected prop
  searchParams,     \* the URL parameters useSearchParams gives it
  isLoading,        \* its button shows the loading state
  href,             \* window.location.href
  renders           \* how often it was rendered

bulkVars ==
  <<projectId, actionCache, fetching, serverDue, pc, bDate, bIds, bIdx, results,
    slept, muts, invalidated>>

outcomeVars ==
  <<outcomeIdsBound, projectStatus, currentOutcomes, myOutcomes, activeProjects,
    allProjects, refetching, serverOutcomes, serverProject, now, oms, observed,
    run, did>>

calendarVars == <<mounted, isConnected, searchParams, isLoading, href, renders>>

vars == <<bulkVars, outcomeVars, calendarVars, notes>>

ActionQueries == {"action.getAll", "action.getToday", "action.getProjectActions"}

\* ------------------------------------------------------------------------
\* Actions.tsx: the action.getAll cache
\* ------------------------------------------------------------------------
Action(id, dueDate) == [id |-> id, name |-> id, dueDate |-> dueDate]

\* what the server answers to action.getAll
ServerActions == Data([k \in ActionIds |-> Action(k, serverDue[k])])

\* the caches the page can start with: never fetched, empty, complete, and
\* without the first action
InitialCaches ==
  { NoData, Data(<<>>),
    Data([k \in ActionIds |-> Action(k, OldDate)]),
    Data([k \in 1..(MaxActions - 1) |-> Action(k + 1, OldDate)]) }

\* action.getAll is observed by this component on non-project pages only
GetAllObserved == projectId = None

Cur == muts[Len(muts)]

SetCur(m) == [muts EXCEPT ![Len(muts)] = m]

\* utils.<query>.invalidate(), once for each query of qs
Invalidate(counts, qs) ==
  [q \in ActionQueries |-> IF q \in qs THEN counts[q] + 1 ELSE counts[q]]

\* an updater that sets the due date of every cached action
OptimisticUpdateEvery(old, id, dueDate) ==
  IF ~old.defined THEN Data(<<>>)
  ELSE Data([k \in DOMAIN old.list |->
          [old.list[k] EXCEPT
             !.dueDate = IF dueDate = Undefined THEN Null ELSE dueDate]])

\* the optimistic updater of onMutate
OptimisticUpdate(old, id, dueDate) ==
  IF ~old.defined THEN Data(<<>>)
  ELSE Data([k \in DOMAIN old.list |->
          IF old.list[k].id = id
          THEN [old.list[k] EXCEPT
                  !.dueDate = IF dueDate = Undefined THEN Null ELSE dueDate]
          ELSE old.list[k]])

\* err.message || 'Unknown error'
MessageOrUnknown(err) == IF err.message = <<>> THEN UnknownError ELSE err.message

\* error instanceof Error ? error.message : 'Unknown error'
ErrorMessage(err) == IF err.isError THEN err.message ELSE UnknownError

\* the classification with equality in place of includes
IsConnectionErrorExact(message) ==
  message = ConnClosed \/ message = ConnReset

IsConnectionError(message) ==
  Includes(message, ConnClosed) \/ Includes(message, ConnReset)

Note(id, title, color, loading, message) ==
  [id |-> id, title |-> title, color |-> color, loading |-> loading,
   message |-> message]

\* notifications.update: the notification of that id gets the new content
UpdateNote(shown, note) ==
  [k \in DOMAIN shown |-> IF shown[k].id = note.id THEN note ELSE shown[k]]

\* the positions in which handleOverdueBulkReschedule waits for an event
BulkWaits == pc \in {"idle", "await", "delay", "done"}

\* the multi-select is not on the page
\* GoogleCalendarConnect is not rendered
CalendarIdle ==
  /\ mounted = FALSE
  /\ isConnected = FALSE
  /\ searchParams = [calendar_connected |-> Null, calendar_error |-> Null]
  /\ isLoading = FALSE
  /\ href = ""
  /\ renders = 0

OutcomeIdle ==
  /\ outcomeIdsBound = FALSE
  /\ projectStatus = "ACTIVE"
  /\ currentOutcomes = <<>>
  /\ myOutcomes = NoData
  /\ activeProjects = NoData
  /\ allProjects = NoData
  /\ refetching = {}
  /\ serverOutcomes = <<>>
  /\ serverProject = <<>>
  /\ now = 0
  /\ oms = <<>>
  /\ observed = 0
  /\ run = [m |-> 0, step |-> "idle"]
  /\ did = [m |-> 0, handler |-> "none"]

InitBulk ==
  /\ OutcomeIdle
  /\ CalendarIdle
  /\ projectId \in {None, "p1"}
  /\ actionCache \in InitialCaches
  /\ fetching \in BOOLEAN
  /\ serverDue = [k \in ActionIds |-> OldDate]
  /\ pc = "idle"
  /\ bDate = Null
  /\ bIds = <<>>
  /\ bIdx = 0
  /\ results = <<>>
  /\ slept = FALSE
  /\ muts = <<>>
  /\ notes = <<>>
  /\ invalidated = [q \in ActionQueries |-> 0]

\* handleOverdueBulkReschedule(date, actionIds) up to the first mutateAsync
StartBulk(date, actionIds) ==
  /\ pc = "idle"
  /\ bDate' = date
  /\ bIds' = actionIds
  /\ IF Len(actionIds) = 0
     THEN /\ pc' = "done"
          /\ UNCHANGED <<bIdx, notes>>
     ELSE /\ pc' = "mutate"
          /\ bIdx' = 1
          /\ notes' = Append(notes,
               Note("bulk-reschedule", "Rescheduling...", None, TRUE,
                    <<"Updating", Len(actionIds)>>))
  /\ UNCHANGED <<calendarVars, outcomeVars, projectId, actionCache, fetching, serverDue, results, slept,
                 muts, invalidated>>

\* bulkUpdateMutation.mutateAsync({id, dueDate: date ?? undefined}) and the
\* onMutate it runs: cancel the fetch, snapshot, write, return the context
OnMutate ==
  /\ pc = "mutate"
  /\ LET id == bIds[bIdx]
         dueDate == IF bDate = Null THEN Undefined ELSE bDate
         previousData == actionCache
     IN /\ fetching' = FALSE
        /\ actionCache' =
             IF previousData.defined
             THEN OptimisticUpdate(actionCache, id, dueDate)
             ELSE actionCache
        /\ muts' = Append(muts,
             [id |-> id, dueDate |-> dueDate, status |-> "mutated",
              context |-> [previousData |-> previousData, actionId |-> id],
              before |-> actionCache, afterDelay |-> slept,
              error |-> Err(FALSE, <<>>),
              inval |-> [q \in ActionQueries |-> 0], failures |-> <<>>])
  /\ slept' = FALSE
  /\ pc' = "send"
  /\ UNCHANGED <<calendarVars, outcomeVars, projectId, serverDue, bDate, bIds, bIdx, results, notes,
                 invalidated>>

\* Send when the loop does not await the mutation
SendWithoutAwait ==
  /\ pc = "send"
  /\ muts' = SetCur([Cur EXCEPT !.status = "pending"])
  /\ IF bIdx < Len(bIds)
     THEN /\ pc' = "mutate"
          /\ bIdx' = bIdx + 1
     ELSE /\ pc' = "await"
          /\ UNCHANGED bIdx
  /\ UNCHANGED <<calendarVars, outcomeVars, projectId, actionCache, fetching, serverDue, bDate,
                 bIds, results, slept, notes, invalidated>>

\* the mutation function: the request leaves for the server
Send ==
  /\ pc = "send"
  /\ muts' = SetCur([Cur EXCEPT !.status = "pending"])
  /\ pc' = "await"
  /\ UNCHANGED <<calendarVars, outcomeVars, projectId, actionCache, fetching, serverDue, bDate, bIds, bIdx,
                 results, slept, notes, invalidated>>

\* the server applies the update and answers; a request without a due date
\* leaves the due date as it is
ServerSuccess ==
  /\ pc = "await"
  /\ serverDue' =
       IF Cur.dueDate = Undefined THEN serverDue
       ELSE [serverDue EXCEPT ![Cur.id] = Cur.dueDate]
  /\ muts' = SetCur([Cur EXCEPT !.status = "success"])
  /\ pc' = "onSettled"
  /\ UNCHANGED <<calendarVars, outcomeVars, projectId, actionCache, fetching, bDate, bIds, bIdx, results,
                 slept, notes, invalidated>>

\* the request is rejected with err
ServerFail(err) ==
  /\ pc = "await"
  /\ muts' = SetCur([Cur EXCEPT !.status = "error", !.error = err])
  /\ pc' = "onError"
  /\ UNCHANGED <<calendarVars, outcomeVars, projectId, actionCache, fetching, serverDue, bDate, bIds, bIdx,
                 results, slept, notes, invalidated>>

\* an error handler that goes back to the snapshot of the first mutation
OnErrorToFirstSnapshot ==
  /\ pc = "onError"
  /\ LET context == muts[1].context
         note == Note(None, "Update Failed", "red", FALSE,
                      <<"Failed to update action", Cur.id>>
                        \o MessageOrUnknown(Cur.error))
     IN /\ actionCache' =
             IF context.previousData.defined
             THEN context.previousData
             ELSE actionCache
        /\ notes' = Append(notes, note)
        /\ muts' = SetCur([Cur EXCEPT !.failures = Append(@, note)])
  /\ pc' = "onSettled"
  /\ UNCHANGED <<calendarVars, outcomeVars, projectId, fetching, serverDue, bDate, bIds, bIdx, results,
                 slept, invalidated>>

\* bulkUpdateMutation.onError: roll back and notify
OnError ==
  /\ pc = "onError"
  /\ LET context == Cur.context
         note == Note(None, "Update Failed", "red", FALSE,
                      <<"Failed to update action", Cur.id>>
                        \o MessageOrUnknown(Cur.error))
     IN /\ actionCache' =
             IF context.previousData.defined
             THEN context.previousData
             ELSE actionCache
        /\ notes' = Append(notes, note)
        /\ muts' = SetCur([Cur EXCEPT !.failures = Append(@, note)])
  /\ pc' = "onSettled"
  /\ UNCHANGED <<calendarVars, outcomeVars, projectId, fetching, serverDue, bDate, bIds, bIdx, results,
                 slept, invalidated>>

\* bulkUpdateMutation.onSettled: invalidate action.getAll and action.getToday;
\* an observed query is fetched again
OnSettled ==
  /\ pc = "onSettled"
  /\ LET qs == {"action.getAll", "action.getToday"}
     IN /\ invalidated' = Invalidate(invalidated, qs)
        /\ muts' = SetCur([Cur EXCEPT !.inval = Invalidate(@, qs)])
  /\ fetching' = (fetching \/ GetAllObserved)
  /\ pc' = "resume"
  /\ UNCHANGED <<calendarVars, outcomeVars, projectId, actionCache, serverDue, bDate, bIds, bIdx, results,
                 slept, notes>>

\* a loop that submits the id again after a failure that is no connection error
ResumeRetrying ==
  /\ pc = "resume"
  /\ IF Cur.status = "success"
     THEN /\ results' = Append(results,
               [actionId |-> Cur.id, success |-> TRUE, error |-> <<>>])
          /\ pc' = IF bIdx < Len(bIds) THEN "delay" ELSE "finish"
          /\ UNCHANGED bIdx
     ELSE LET errorMessage == ErrorMessage(Cur.error)
          IN /\ results' = Append(results,
                  [actionId |-> Cur.id, success |-> FALSE, error |-> errorMessage])
             /\ pc' = IF IsConnectionError(errorMessage) THEN "finish" ELSE "mutate"
             /\ UNCHANGED bIdx
  /\ UNCHANGED <<calendarVars, outcomeVars, projectId, actionCache, fetching, serverDue, bDate, bIds, slept,
                 muts, notes, invalidated>>

\* the loop body after the await: record the result, then delay, go on or stop
Resume ==
  /\ pc = "resume"
  /\ IF Cur.status = "success"
     THEN /\ results' = Append(results,
               [actionId |-> Cur.id, success |-> TRUE, error |-> <<>>])
          /\ pc' = IF bIdx < Len(bIds) THEN "delay" ELSE "finish"
          /\ UNCHANGED bIdx
     ELSE LET errorMessage == ErrorMessage(Cur.error)
          IN /\ results' = Append(results,
                  [actionId |-> Cur.id, success |-> FALSE, error |-> errorMessage])
             /\ IF IsConnectionError(errorMessage)
                THEN /\ pc' = "finish"
                     /\ UNCHANGED bIdx
                ELSE IF bIdx < Len(bIds)
                THEN /\ pc' = "mutate"
                     /\ bIdx' = bIdx + 1
                ELSE /\ pc' = "finish"
                     /\ UNCHANGED bIdx
  /\ UNCHANGED <<calendarVars, outcomeVars, projectId, actionCache, fetching, serverDue, bDate, bIds, slept,
                 muts, notes, invalidated>>

\* setTimeout(resolve, 100) fires: the loop goes on with the next id
TimerFire ==
  /\ pc = "delay"
  /\ slept' = TRUE
  /\ bIdx' = bIdx + 1
  /\ pc' = "mutate"
  /\ UNCHANGED <<calendarVars, outcomeVars, projectId, actionCache, fetching, serverDue, bDate, bIds,
                 results, muts, notes, invalidated>>

\* an end of the loop that reports success as soon as one mutation succeeded
FinishGreenOnAnySuccess ==
  /\ pc = "finish"
  /\ LET failedResults == SelectSeq(results, LAMBDA r : ~r.success)
         successfulResults == SelectSeq(results, LAMBDA r : r.success)
     IN IF Len(successfulResults) = 0
        THEN /\ notes' = UpdateNote(notes,
                  Note("bulk-reschedule", "Bulk Update Failed", "red", FALSE,
                       <<"mutations failed", Len(failedResults), Len(bIds)>>))
             /\ UNCHANGED <<invalidated, fetching>>
        ELSE /\ notes' = UpdateNote(notes,
                  Note("bulk-reschedule",
                       IF bDate # Null THEN "Bulk Reschedule Complete"
                       ELSE "Due Date Removed",
                       "green", FALSE, <<"Successfully", Len(successfulResults)>>))
             /\ invalidated' = Invalidate(invalidated,
                  {"action.getAll", "action.getToday"}
                    \cup (IF projectId # None THEN {"action.getProjectActions"}
                          ELSE {}))
             /\ fetching' = (fetching \/ GetAllObserved)
  /\ pc' = "done"
  /\ UNCHANGED <<calendarVars, outcomeVars, projectId, actionCache, serverDue, bDate, bIds, bIdx, results,
                 slept, muts>>

\* after the loop: the summary notification and, on success, the invalidation
Finish ==
  /\ pc = "finish"
  /\ LET failedResults == SelectSeq(results, LAMBDA r : ~r.success)
         successfulResults == SelectSeq(results, LAMBDA r : r.success)
         connectionErrors ==
           SelectSeq(failedResults, LAMBDA r : IsConnectionError(r.error))
     IN IF Len(failedResults) > 0
        THEN /\ notes' = UpdateNote(notes,
                  Note("bulk-reschedule", "Bulk Update Failed", "red", FALSE,
                       IF Len(connectionErrors) > 0
                       THEN <<"Database connection was lost",
                              Len(successfulResults), Len(bIds), Len(failedResults)>>
                       ELSE <<"mutations failed", Len(failedResults), Len(bIds)>>))
             /\ UNCHANGED <<invalidated, fetching>>
        ELSE /\ notes' = UpdateNote(notes,
                  Note("bulk-reschedule",
                       IF bDate # Null THEN "Bulk Reschedule Complete"
                       ELSE "Due Date Removed",
                       "green", FALSE, <<"Successfully", Len(successfulResults)>>))
             /\ invalidated' = Invalidate(invalidated,
                  {"action.getAll", "action.getToday"}
                    \cup (IF projectId # None THEN {"action.getProjectActions"}
                          ELSE {}))
             /\ fetching' = (fetching \/ GetAllObserved)
  /\ pc' = "done"
  /\ UNCHANGED <<calendarVars, outcomeVars, projectId, actionCache, serverDue, bDate, bIds, bIdx, results,
                 slept, muts>>

\* the answer to a fetch of action.getAll arrives
FetchDone ==
  /\ BulkWaits
  /\ fetching
  /\ actionCache' = ServerActions
  /\ fetching' = FALSE
  /\ UNCHANGED <<calendarVars, outcomeVars, projectId, serverDue, pc, bDate, bIds, bIdx, results, slept,
                 muts, notes, invalidated>>

NextBulk ==
  \/ \E date \in {NewDate, Null}, actionIds \in SeqsOver(ActionIds, MaxActions) :
       Distinct(actionIds) /\ StartBulk(date, actionIds)
  \/ OnMutate
  \/ Send
  \/ ServerSuccess
  \/ \E err \in Errors : ServerFail(err)
  \/ OnError
  \/ OnSettled
  \/ Resume
  \/ TimerFire
  \/ Finish
  \/ FetchDone

SpecBulk == InitBulk /\ [][NextBulk]_vars

\* the steps of a bulk reschedule that is under way: handlers and
\* continuations run, the timer fires, and every request sent is answered
BulkProgress ==
  \/ OnMutate
  \/ Send
  \/ ServerSuccess
  \/ \E err \in Errors : ServerFail(err)
  \/ OnError
  \/ OnSettled
  \/ Resume
  \/ TimerFire
  \/ Finish

SpecBulkFair == SpecBulk /\ WF_vars(BulkProgress)

\* ------------------------------------------------------------------------
\* CalendarToggleButton.tsx: OutcomeMultiSelect
\* ------------------------------------------------------------------------
TheProject == "p1"
OtherProject == "p2"

OutcomeQueries ==
  {"outcome.getMyOutcomes", "project.getActiveWithDetails", "project.getAll"}

ProjectQueries == {"project.getActiveWithDetails", "project.getAll"}

RealId(n) == <<"id", n>>

\* `temp-${Date.now()}`
TempId(t) == <<"temp", t>>

IsTemp(id) == id[1] = "temp"

Outcome(id, description) == [id |-> id, description |-> description]

\* the shape in which the handlers put an outcome into a cached project
ProjectOutcome(o) ==
  [id |-> o.id, description |-> o.description, projectId |-> TheProject]

Project(id, outcomes) == [id |-> id, outcomes |-> outcomes]

\* outcomes.map(outcome => ({ id: outcome.id, ..., projectId: projectId }))
ProjectOutcomes(outcomes) ==
  [k \in DOMAIN outcomes |-> ProjectOutcome(outcomes[k])]

\* a project's outcomes as the currentOutcomes prop carries them
AsOutcomes(outcomes) ==
  [k \in DOMAIN outcomes |-> Outcome(outcomes[k].id, outcomes[k].description)]

Ids(outcomes) == [k \in DOMAIN outcomes |-> outcomes[k].id]

\* (old) => old ? old.map(p => p.id === projectId ? {...p, outcomes} : p) : old
SetProjectOutcomes(old, outcomes) ==
  IF ~old.defined THEN old
  ELSE Data([k \in DOMAIN old.list |->
          IF old.list[k].id = TheProject
          THEN [old.list[k] EXCEPT !.outcomes = outcomes]
          ELSE old.list[k]])

\* the outcomes of the project in a cached list, [] when it is not there
OutcomesIn(cache) ==
  IF \E k \in DOMAIN cache.list : cache.list[k].id = TheProject
  THEN cache.list[CHOOSE k \in DOMAIN cache.list :
                    cache.list[k].id = TheProject].outcomes
  ELSE <<>>

\* what the server answers to the three queries
ServerMyOutcomes == Data(serverOutcomes)

ServerProjectRecord ==
  Project(TheProject,
    ProjectOutcomes(
      SelectSeq(serverOutcomes, LAMBDA o : o.id \in Range(serverProject))))

ServerAllProjects == Data(<<ServerProjectRecord, Project(OtherProject, <<>>)>>)

ServerActiveProjects ==
  IF projectStatus = "ACTIVE" THEN ServerAllProjects
  ELSE Data(<<Project(OtherProject, <<>>)>>)

ServerData(q) ==
  CASE q = "outcome.getMyOutcomes" -> ServerMyOutcomes
    [] q = "project.getActiveWithDetails" -> ServerActiveProjects
    [] q = "project.getAll" -> ServerAllProjects

ReferenceError == Err(TRUE, <<"outcomeIds is not defined">>)
ServerError == Err(TRUE, <<"Internal server error">>)
NoError == Err(FALSE, <<>>)

NoContext == [has |-> FALSE]

NoCounts == [q \in OutcomeQueries |-> 0]

Count(counts, qs) ==
  [q \in OutcomeQueries |-> IF q \in qs THEN counts[q] + 1 ELSE counts[q]]

\* the record of a mutate call; before and wrote are filled in by onMutate
NewMutation(kind, outcomeIds, description, chained, created) ==
  [kind |-> kind, outcomeIds |-> outcomeIds, description |-> description,
   chained |-> chained, created |-> created, status |-> "started",
   context |-> NoContext, error |-> NoError, result |-> Outcome(<<>>, ""),
   before |-> [mine |-> myOutcomes, active |-> activeProjects,
               all |-> allProjects],
   startedWith |-> <<>>, wrote |-> {}, inval |-> NoCounts, failures |-> <<>>,
   chainedCalls |-> 0]

Idle == run.step = "idle"

Running(step, kind) ==
  /\ run.step = step
  /\ oms[run.m].kind = kind

Did(m, handler) == [m |-> m, handler |-> handler]

\* the queries whose data differs between two states of the three caches
Changed(mine, active, all) ==
  (IF mine # myOutcomes THEN {"outcome.getMyOutcomes"} ELSE {})
    \cup (IF active # activeProjects THEN {"project.getActiveWithDetails"} ELSE {})
    \cup (IF all # allProjects THEN {"project.getAll"} ELSE {})

\* the caches the page can start with: all three lists fetched, none of them,
\* and project.getAll alone
InitialOutcomeCaches ==
  { <<ServerMyOutcomes, ServerActiveProjects, ServerAllProjects>>,
    <<NoData, NoData, NoData>>,
    <<NoData, NoData, ServerAllProjects>> }

InitOutcome ==
  /\ CalendarIdle
  /\ outcomeIdsBound \in BOOLEAN
  /\ projectStatus = "ACTIVE"
  /\ serverOutcomes = <<Outcome(RealId(1), "a"), Outcome(RealId(2), "b")>>
  /\ serverProject = <<RealId(1)>>
  /\ currentOutcomes = <<Outcome(RealId(1), "a")>>
  /\ \E caches \in InitialOutcomeCaches :
       /\ myOutcomes = caches[1]
       /\ activeProjects = caches[2]
       /\ allProjects = caches[3]
  \* the page starts at rest or with a refetch of the cached outcomes under way
  /\ refetching \in (IF myOutcomes.defined THEN {{}, {"outcome.getMyOutcomes"}}
                     ELSE {{}})
  /\ now = 0
  /\ oms = <<>>
  /\ observed = 0
  /\ run = [m |-> 0, step |-> "idle"]
  /\ did = Did(0, "none")
  /\ notes = <<>>
  \* Actions is not on the page
  /\ projectId = None
  /\ actionCache = NoData
  /\ fetching = FALSE
  /\ serverDue = [k \in ActionIds |-> OldDate]
  /\ pc = "idle"
  /\ bDate = Null
  /\ bIds = <<>>
  /\ bIdx = 0
  /\ results = <<>>
  /\ slept = FALSE
  /\ muts = <<>>
  /\ invalidated = [q \in ActionQueries |-> 0]

\* the currentOutcomes the parent passes on the next render: the outcomes of
\* the project in the cached project list it shows
RenderedOutcomes ==
  LET Holds(cache) ==
        cache.defined /\ \E k \in DOMAIN cache.list : cache.list[k].id = TheProject
  IN IF Holds(activeProjects) THEN AsOutcomes(OutcomesIn(activeProjects))
     ELSE IF Holds(allProjects) THEN AsOutcomes(OutcomesIn(allProjects))
     ELSE currentOutcomes

\* the ids the multi-select offers: allOutcomes and currentOutcomes
OptionIds ==
  Range(Ids(RenderedOutcomes))
    \cup (IF myOutcomes.defined THEN Range(Ids(myOutcomes.list)) ELSE {})

\* the values onChange can carry: the selection with one id removed, with one
\* option added, or cleared
SelectionChanges ==
  LET value == Ids(RenderedOutcomes)
  IN ({<<>>}
       \cup {SelectSeq(value, LAMBDA v : v # x) : x \in Range(value)}
       \cup {Append(value, x) : x \in OptionIds \ Range(value)})
     \ {value}

\* what is kept of a mutation that has settled and run its handlers
Forget(mutation) ==
  [mutation EXCEPT !.outcomeIds = <<>>, !.description = "",
                   !.created = Outcome(<<>>, ""), !.context = NoContext,
                   !.result = Outcome(<<>>, ""),
                   !.before = [mine |-> NoData, active |-> NoData, all |-> NoData],
                   !.startedWith = <<>>, !.wrote = {}]

\* onChange without a create option: updateProject.mutate({..., outcomeIds: values})
SelectOutcomes(values) ==
  /\ Idle
  /\ Len(oms) < MaxMutations
  /\ currentOutcomes' = RenderedOutcomes
  /\ oms' = Append(oms, NewMutation("update", values, "", FALSE, Outcome(<<>>, "")))
  /\ observed' = Len(oms) + 1
  /\ run' = [m |-> Len(oms) + 1, step |-> "onMutate"]
  /\ did' = Did(Len(oms) + 1, "mutate")
  /\ UNCHANGED <<calendarVars, bulkVars, notes, outcomeIdsBound, projectStatus,
                 myOutcomes, activeProjects, allProjects, refetching,
                 serverOutcomes, serverProject, now>>

\* the milliseconds that can lie between the last creation and the next one;
\* only whether two creations fall into the same millisecond matters
Ticks == IF \E m \in DOMAIN oms : oms[m].kind = "create" THEN {0, 1} ELSE {1}

\* onChange with the create option: createOutcomeMutation.mutate({description}),
\* tick milliseconds after the last creation
CreateOutcome(description, tick) ==
  /\ Idle
  /\ Len(oms) + 2 <= MaxMutations
  /\ currentOutcomes' = RenderedOutcomes
  /\ now' = now + tick
  /\ oms' = Append(oms, NewMutation("create", <<>>, description, FALSE,
                                    Outcome(<<>>, "")))
  /\ run' = [m |-> Len(oms) + 1, step |-> "onMutate"]
  /\ did' = Did(Len(oms) + 1, "mutate")
  /\ UNCHANGED <<calendarVars, bulkVars, notes, outcomeIdsBound, projectStatus,
                 myOutcomes, activeProjects, allProjects, refetching,
                 serverOutcomes, serverProject, observed>>

\* latestAllOutcomes.filter(o => outcomeIds.includes(o.id))
UpdatedOutcomes(latestAllOutcomes, outcomeIds) ==
  SelectSeq(latestAllOutcomes, LAMBDA o : o.id \in Range(outcomeIds))

\* updateProject.onMutate: cancel the fetches, snapshot, write, return the
\* context.  The body reads outcomeIds, which the parameter list does not
\* bind: where the name resolves to the outcomeIds of the variables the
\* lists are written, where it does not the read throws a ReferenceError,
\* onMutate rejects and the mutation fails without a context or a request.
UpdateOnMutate ==
  /\ Running("onMutate", "update")
  /\ LET m == run.m
         previousActiveProjects == activeProjects
         previousAllProjects == allProjects
         latestAllOutcomes == IF myOutcomes.defined THEN myOutcomes.list ELSE <<>>
         updatedOutcomes ==
           ProjectOutcomes(UpdatedOutcomes(latestAllOutcomes, oms[m].outcomeIds))
         before == [mine |-> myOutcomes, active |-> activeProjects,
                    all |-> allProjects]
     IN /\ refetching' = refetching \ ProjectQueries
        /\ IF outcomeIdsBound
           THEN /\ activeProjects' = SetProjectOutcomes(activeProjects, updatedOutcomes)
                /\ allProjects' = SetProjectOutcomes(allProjects, updatedOutcomes)
                /\ oms' = [oms EXCEPT
                     ![m].context = [has |-> TRUE,
                                     previousActiveProjects |-> previousActiveProjects,
                                     previousAllProjects |-> previousAllProjects],
                     ![m].before = before,
                     ![m].wrote = Changed(myOutcomes, activeProjects', allProjects')]
                /\ run' = [m |-> m, step |-> "send"]
           ELSE /\ UNCHANGED <<activeProjects, allProjects>>
                /\ oms' = [oms EXCEPT ![m].status = "error",
                                      ![m].error = ReferenceError,
                                      ![m].before = before]
                /\ run' = [m |-> m, step |-> "onError"]
        /\ did' = Did(m, "onMutate")
  /\ UNCHANGED <<calendarVars, bulkVars, notes, outcomeIdsBound, projectStatus, currentOutcomes,
                 myOutcomes, serverOutcomes, serverProject, now, observed>>

\* (old) => old ? [...old, tempOutcome] : [tempOutcome]
AddOutcome(old, outcome) ==
  IF ~old.defined THEN Data(<<outcome>>) ELSE Data(Append(old.list, outcome))

\* createOutcomeMutation.onMutate: write the temporary outcome into the three
\* lists and return {tempId, currentOutcomeIds, tempOutcome}
CreateOnMutate ==
  /\ Running("onMutate", "create")
  /\ LET m == run.m
         tempId == TempId(now)
         tempOutcome == Outcome(tempId, oms[m].description)
         currentOutcomeIds == Ids(currentOutcomes)
         newOutcomes == Append(currentOutcomes, tempOutcome)
     IN /\ myOutcomes' = AddOutcome(myOutcomes, tempOutcome)
        /\ activeProjects' =
             SetProjectOutcomes(activeProjects, ProjectOutcomes(newOutcomes))
        /\ allProjects' =
             SetProjectOutcomes(allProjects, ProjectOutcomes(newOutcomes))
        /\ oms' = [oms EXCEPT
             ![m].context = [has |-> TRUE, tempId |-> tempId,
                             currentOutcomeIds |-> currentOutcomeIds,
                             tempOutcome |-> tempOutcome],
             ![m].before = [mine |-> myOutcomes, active |-> activeProjects,
                            all |-> allProjects],
             ![m].startedWith = currentOutcomeIds,
             ![m].wrote = Changed(myOutcomes', activeProjects', allProjects')]
        /\ run' = [m |-> m, step |-> "send"]
        /\ did' = Did(m, "onMutate")
  /\ UNCHANGED <<calendarVars, bulkVars, notes, outcomeIdsBound, projectStatus, currentOutcomes,
                 refetching, serverOutcomes, serverProject, now, observed>>

\* the mutation function: the request leaves for the server
SendRequest ==
  /\ run.step = "send"
  /\ oms' = [oms EXCEPT ![run.m].status = "pending"]
  /\ run' = [m |-> 0, step |-> "idle"]
  /\ did' = Did(run.m, "send")
  /\ UNCHANGED <<calendarVars, bulkVars, notes, outcomeIdsBound, projectStatus, currentOutcomes,
                 myOutcomes, activeProjects, allProjects, refetching,
                 serverOutcomes, serverProject, now, observed>>

Pending(m, kind) ==
  /\ Idle
  /\ oms[m].kind = kind
  /\ oms[m].status = "pending"

\* the server stores the outcome ids it knows for the project and answers
UpdateSucceeds(m) ==
  /\ Pending(m, "update")
  /\ serverProject' =
       SelectSeq(oms[m].outcomeIds, LAMBDA id : id \in Range(Ids(serverOutcomes)))
  /\ oms' = [oms EXCEPT ![m].status = "success"]
  /\ run' = [m |-> m, step |-> "onSettled"]
  /\ did' = Did(m, "response")
  /\ UNCHANGED <<calendarVars, bulkVars, notes, outcomeIdsBound, projectStatus, currentOutcomes,
                 myOutcomes, activeProjects, allProjects, refetching,
                 serverOutcomes, now, observed>>

\* the server creates the outcome under a new id and answers with it
CreateSucceeds(m) ==
  /\ Pending(m, "create")
  /\ LET newOutcome == Outcome(RealId(Len(serverOutcomes) + 1), oms[m].description)
     IN /\ serverOutcomes' = Append(serverOutcomes, newOutcome)
        /\ oms' = [oms EXCEPT ![m].status = "success", ![m].result = newOutcome]
  /\ run' = [m |-> m, step |-> "onSuccess"]
  /\ did' = Did(m, "response")
  /\ UNCHANGED <<calendarVars, bulkVars, notes, outcomeIdsBound, projectStatus, currentOutcomes,
                 myOutcomes, activeProjects, allProjects, refetching,
                 serverProject, now, observed>>

\* the server rejects the request
RequestFails(m) ==
  /\ Idle
  /\ oms[m].status = "pending"
  /\ oms' = [oms EXCEPT ![m].status = "error", ![m].error = ServerError]
  /\ run' = [m |-> m, step |-> "onError"]
  /\ did' = Did(m, "response")
  /\ UNCHANGED <<calendarVars, bulkVars, notes, outcomeIdsBound, projectStatus, currentOutcomes,
                 myOutcomes, activeProjects, allProjects, refetching,
                 serverOutcomes, serverProject, now, observed>>

\* an error handler that leaves the lists alone once a later mutation wrote them
UpdateOnErrorUnlessWritten ==
  /\ Running("onError", "update")
  /\ LET context == oms[run.m].context
         later == \E n \in DOMAIN oms : n > run.m /\ oms[n].wrote # {}
     IN /\ activeProjects' =
             IF context.has /\ context.previousActiveProjects.defined /\ ~later
             THEN context.previousActiveProjects
             ELSE activeProjects
        /\ allProjects' =
             IF context.has /\ context.previousAllProjects.defined /\ ~later
             THEN context.previousAllProjects
             ELSE allProjects
  /\ run' = [m |-> run.m, step |-> "onSettled"]
  /\ did' = Did(run.m, "onError")
  /\ UNCHANGED <<calendarVars, bulkVars, notes, outcomeIdsBound, projectStatus, currentOutcomes,
                 myOutcomes, refetching, serverOutcomes, serverProject, now, oms,
                 observed>>

\* updateProject.onError: put the snapshots of the context back
UpdateOnError ==
  /\ Running("onError", "update")
  /\ LET context == oms[run.m].context
     IN /\ activeProjects' =
             IF context.has /\ context.previousActiveProjects.defined
             THEN context.previousActiveProjects
             ELSE activeProjects
        /\ allProjects' =
             IF context.has /\ context.previousAllProjects.defined
             THEN context.previousAllProjects
             ELSE allProjects
  /\ run' = [m |-> run.m, step |-> "onSettled"]
  /\ did' = Did(run.m, "onError")
  /\ UNCHANGED <<calendarVars, bulkVars, notes, outcomeIdsBound, projectStatus, currentOutcomes,
                 myOutcomes, refetching, serverOutcomes, serverProject, now, oms,
                 observed>>

\* updateProject.onSettled, the handler given to useMutation: invalidate the
\* two project queries.  The handlers given to mutate run after it, for the
\* mutation the observer still follows.
UpdateOnSettled ==
  /\ Running("onSettled", "update")
  /\ LET counted == [oms[run.m] EXCEPT !.inval = Count(@, ProjectQueries)]
     IN IF oms[run.m].chained /\ observed = run.m
        THEN /\ oms' = [oms EXCEPT ![run.m] = counted]
             /\ run' = [m |-> run.m, step |-> "callbacks"]
        ELSE /\ oms' = [oms EXCEPT ![run.m] = Forget(counted)]
             /\ run' = [m |-> 0, step |-> "idle"]
  /\ refetching' = refetching \cup ProjectQueries
  /\ did' = Did(run.m, "onSettled")
  /\ UNCHANGED <<calendarVars, bulkVars, notes, outcomeIdsBound, projectStatus, currentOutcomes,
                 myOutcomes, activeProjects, allProjects, serverOutcomes,
                 serverProject, now, observed>>

\* the onSuccess and onSettled given to updateProject.mutate by the creation
ChainedCallbacks ==
  /\ Running("callbacks", "update")
  /\ notes' =
       IF oms[run.m].status = "success"
       THEN Append(notes, Note(None, "Outcome created", "green", FALSE,
                               <<oms[run.m].created.description, "has been added">>))
       ELSE notes
  /\ oms' = [oms EXCEPT
       ![run.m] = Forget([@ EXCEPT !.inval = Count(@, OutcomeQueries)])]
  /\ refetching' = refetching \cup OutcomeQueries
  /\ run' = [m |-> 0, step |-> "idle"]
  /\ did' = Did(run.m, "callbacks")
  /\ UNCHANGED <<calendarVars, bulkVars, outcomeIdsBound, projectStatus, currentOutcomes,
                 myOutcomes, activeProjects, allProjects, serverOutcomes,
                 serverProject, now, observed>>

\* a success handler that adds the created outcome and leaves the temporary one
ReplaceTempKeeping(old, tempId, newOutcome) ==
  IF ~old.defined THEN Data(<<newOutcome>>)
  ELSE Data(Append(old.list, newOutcome))

\* (old) => old ? old.map(o => o.id === tempId ? newOutcome : o) : [newOutcome]
ReplaceTemp(old, tempId, newOutcome) ==
  IF ~old.defined THEN Data(<<newOutcome>>)
  ELSE Data([k \in DOMAIN old.list |->
          IF old.list[k].id = tempId THEN newOutcome ELSE old.list[k]])

\* projectOutcomes.filter(o => o.id !== tempId).concat(newOutcome)
WithoutTemp(projectOutcomes, tempId, newOutcome) ==
  Append(SelectSeq(projectOutcomes, LAMBDA o : o.id # tempId), newOutcome)

\* a chained update that sends the temporary id
ChainedTempIds(context, newOutcome) ==
  Append(context.currentOutcomeIds, context.tempId)

\* [...currentOutcomeIds, newOutcome.id]
ChainedOutcomeIds(context, newOutcome) ==
  Append(context.currentOutcomeIds, newOutcome.id)

\* createOutcomeMutation.onSuccess: put the created outcome in the place of
\* the temporary one, then updateProject.mutate with the real ids
CreateOnSuccess ==
  /\ Running("onSuccess", "create")
  /\ LET m == run.m
         context == oms[m].context
         newOutcome == oms[m].result
         projectOutcomes == OutcomesIn(activeProjects)
         updatedOutcomes == WithoutTemp(projectOutcomes, context.tempId, newOutcome)
         outcomeIds == ChainedOutcomeIds(context, newOutcome)
     IN /\ myOutcomes' = ReplaceTemp(myOutcomes, context.tempId, newOutcome)
        /\ activeProjects' = SetProjectOutcomes(activeProjects, updatedOutcomes)
        /\ allProjects' = SetProjectOutcomes(allProjects, updatedOutcomes)
        /\ oms' = Append([oms EXCEPT ![m] = Forget([@ EXCEPT !.chainedCalls = @ + 1])],
                         NewMutation("update", outcomeIds, "", TRUE, newOutcome))
        /\ observed' = Len(oms) + 1
        /\ run' = [m |-> Len(oms) + 1, step |-> "onMutate"]
        /\ did' = Did(m, "onSuccess")
  /\ UNCHANGED <<calendarVars, bulkVars, notes, outcomeIdsBound, projectStatus, currentOutcomes,
                 refetching, serverOutcomes, serverProject, now>>

\* createOutcomeMutation.onError: invalidate the three queries and notify
CreateOnError ==
  /\ Running("onError", "create")
  /\ LET note == Note(None, "Failed to create outcome", "red", FALSE,
                      oms[run.m].error.message)
     IN /\ notes' = Append(notes, note)
        /\ oms' = [oms EXCEPT
             ![run.m] = Forget([@ EXCEPT !.inval = Count(@, OutcomeQueries),
                                         !.failures = Append(@, note)])]
  /\ refetching' = refetching \cup OutcomeQueries
  /\ run' = [m |-> 0, step |-> "idle"]
  /\ did' = Did(run.m, "onError")
  /\ UNCHANGED <<calendarVars, bulkVars, outcomeIdsBound, projectStatus, currentOutcomes,
                 myOutcomes, activeProjects, allProjects, serverOutcomes,
                 serverProject, now, observed>>

\* the answer to a fetch of q arrives
RefetchDone(q) ==
  /\ Idle
  /\ q \in refetching
  /\ refetching' = refetching \ {q}
  /\ myOutcomes' = IF q = "outcome.getMyOutcomes" THEN ServerData(q) ELSE myOutcomes
  /\ activeProjects' =
       IF q = "project.getActiveWithDetails" THEN ServerData(q) ELSE activeProjects
  /\ allProjects' = IF q = "project.getAll" THEN ServerData(q) ELSE allProjects
  /\ did' = Did(0, "none")
  /\ UNCHANGED <<calendarVars, bulkVars, notes, outcomeIdsBound, projectStatus, currentOutcomes,
                 serverOutcomes, serverProject, now, oms, observed, run>>

NextOutcome ==
  \/ \E values \in SelectionChanges : SelectOutcomes(values)
  \/ \E tick \in Ticks : CreateOutcome("x", tick)
  \/ UpdateOnMutate
  \/ CreateOnMutate
  \/ SendRequest
  \/ \E m \in DOMAIN oms : UpdateSucceeds(m)
  \/ \E m \in DOMAIN oms : CreateSucceeds(m)
  \/ \E m \in DOMAIN oms : RequestFails(m)
  \/ UpdateOnError
  \/ UpdateOnSettled
  \/ ChainedCallbacks
  \/ CreateOnSuccess
  \/ CreateOnError
  \/ \E q \in OutcomeQueries : RefetchDone(q)

SpecOutcome == InitOutcome /\ [][NextOutcome]_vars

\* ------------------------------------------------------------------------
\* GoogleCalendarConnect, as its test (GoogleCalendarConnect.test.tsx) renders
\* and clicks it
\* ------------------------------------------------------------------------
\* how often the component is rendered
MaxRenders == 3

AuthUrl == "/api/auth/google-calendar"

\* the URL parameters of the test: none, calendar_connected=true,
\* calendar_error=access_denied, calendar_error=token_exchange_failed
ParamSets ==
  { [calendar_connected |-> Null, calendar_error |-> Null],
    [calendar_connected |-> "true", calendar_error |-> Null],
    [calendar_connected |-> Null, calendar_error |-> "access_denied"],
    [calendar_connected |-> Null, calendar_error |-> "token_exchange_failed"] }

ButtonLabel(connected) ==
  IF connected THEN "Calendar Connected" ELSE "Connect Google Calendar"

\* a button that is never disabled
ButtonNeverDisabled(connected) == FALSE

\* the button of a connected calendar is disabled
ButtonDisabled(connected) == connected

\* a component that shows the retry message for every calendar_error
UrlNotificationGeneric(params) ==
  IF params.calendar_connected = "true"
  THEN <<Note(None, "Calendar Connected!", "green", FALSE,
              <<"Your Google Calendar is now connected and ready to use.">>)>>
  ELSE IF params.calendar_error # Null
  THEN <<Note(None, "Connection Failed", "red", FALSE,
              <<"Failed to connect calendar. Please try again.">>)>>
  ELSE <<>>

\* the notifications the component shows for the URL parameters
UrlNotification(params) ==
  IF params.calendar_connected = "true"
  THEN <<Note(None, "Calendar Connected!", "green", FALSE,
              <<"Your Google Calendar is now connected and ready to use.">>)>>
  ELSE IF params.calendar_error = "access_denied"
  THEN <<Note(None, "Connection Failed", "red", FALSE,
              <<"Calendar access was denied. Please try again and grant permissions.">>)>>
  ELSE IF params.calendar_error # Null
  THEN <<Note(None, "Connection Failed", "red", FALSE,
              <<"Failed to connect calendar. Please try again.">>)>>
  ELSE <<>>

InitCalendar ==
  /\ CalendarIdle
  /\ OutcomeIdle
  /\ notes = <<>>
  /\ projectId = None
  /\ actionCache = NoData
  /\ fetching = FALSE
  /\ serverDue = [k \in ActionIds |-> OldDate]
  /\ pc = "idle"
  /\ bDate = Null
  /\ bIds = <<>>
  /\ bIdx = 0
  /\ results = <<>>
  /\ slept = FALSE
  /\ muts = <<>>
  /\ invalidated = [q \in ActionQueries |-> 0]

\* render(<GoogleCalendarConnect isConnected={connected} />) with the URL
\* parameters params: the notification for the parameters is shown
Mount(connected, params) ==
  /\ ~mounted
  /\ renders < MaxRenders
  /\ mounted' = TRUE
  /\ renders' = renders + 1
  /\ isConnected' = connected
  /\ searchParams' = params
  /\ isLoading' = FALSE
  /\ notes' = notes \o UrlNotification(params)
  /\ UNCHANGED <<bulkVars, outcomeVars, href>>

\* fireEvent.click(button): a disabled button takes no click
Click ==
  /\ mounted
  /\ ~ButtonDisabled(isConnected)
  /\ isLoading' = TRUE
  /\ href' = AuthUrl
  /\ UNCHANGED <<bulkVars, outcomeVars, notes, mounted, isConnected, searchParams,
                 renders>>

\* the component is removed; the test restores window.location
Unmount ==
  /\ mounted
  /\ mounted' = FALSE
  /\ isLoading' = FALSE
  /\ href' = ""
  /\ UNCHANGED <<bulkVars, outcomeVars, notes, isConnected, searchParams, renders>>

NextCalendar ==
  \/ \E connected \in BOOLEAN, params \in ParamSets : Mount(connected, params)
  \/ Click
  \/ Unmount

SpecCalendar == InitCalendar /\ [][NextCalendar]_vars

\* ------------------------------------------------------------------------
\* Properties of GoogleCalendarConnect
\* ------------------------------------------------------------------------
\* C13: a rendered button of a calendar that is not connected is enabled and
\* a click on it sets the loading state and sends the browser to
\* /api/auth/google-calendar; the button of a connected calendar is labelled
\* as connected and disabled, and no step taken while it is shown changes the
\* location or starts loading
C13_ConnectButton ==
  [][/\ (mounted' /\ ~isConnected') =>
          /\ ~ButtonDisabled(isConnected')
          /\ ButtonLabel(isConnected') = "Connect Google Calendar"
     /\ (mounted /\ mounted' /\ ~isConnected) =>
          /\ isLoading'
          /\ href' = "/api/auth/google-calendar"
     /\ (mounted' /\ isConnected') =>
          /\ ButtonDisabled(isConnected')
          /\ ButtonLabel(isConnected') = "Calendar Connected"
     /\ (mounted /\ isConnected) =>
          /\ href' = href
          /\ ~isLoading']_vars

\* the button of a calendar that is not connected was clicked
C13_Witness ==
  /\ mounted
  /\ ~isConnected
  /\ isLoading
  /\ href = "/api/auth/google-calendar"

Done(m) == oms[m].status \in {"success", "error"} /\ run.m # m

HoldsId(outcomes, id) == \E k \in DOMAIN outcomes : outcomes[k].id = id

\* the three lists as seen through the outcomes they hold for the multi-select
Views(mine, active, all) ==
  [q \in OutcomeQueries |->
     CASE q = "outcome.getMyOutcomes" -> mine.list
       [] q = "project.getActiveWithDetails" -> OutcomesIn(active)
       [] q = "project.getAll" -> OutcomesIn(all)]

CacheOf(q, mine, active, all) ==
  CASE q = "outcome.getMyOutcomes" -> mine
    [] q = "project.getActiveWithDetails" -> active
    [] q = "project.getAll" -> all

\* C1: when the error handler of a failed mutation has run, every cache
\* entry its onMutate wrote holds the value it held before onMutate
C1_RollbackRestoresSnapshot ==
  [][\A m \in DOMAIN oms :
       (run.m = m /\ run.step = "onError") =>
         \A q \in oms[m].wrote :
           CacheOf(q, myOutcomes', activeProjects', allProjects')
             = CacheOf(q, oms[m].before.mine, oms[m].before.active,
                       oms[m].before.all)]_vars

\* C2: when the success handler of a creation has run, no list holds a record
\* with the temporary id, and every list that held one holds the created
\* outcome, under the id the server gave it
C2_TempReplaced ==
  [][\A m \in DOMAIN oms :
       (run.m = m /\ run.step = "onSuccess") =>
         LET tempId == oms[m].context.tempId
             newOutcome == oms[m].result
             old == Views(myOutcomes, activeProjects, allProjects)
             new == Views(myOutcomes', activeProjects', allProjects')
         IN /\ ~IsTemp(newOutcome.id)
            /\ \A q \in OutcomeQueries :
                 /\ ~HoldsId(new[q], tempId)
                 /\ HoldsId(old[q], tempId) =>
                      \E k \in DOMAIN new[q] :
                        /\ new[q][k].id = newOutcome.id
                        /\ new[q][k].description = newOutcome.description]_vars

\* the success handler ran while all three lists held the temporary outcome
C2_Witness ==
  /\ did.handler = "onSuccess"
  /\ oms[did.m].status = "success"
  /\ \A q \in OutcomeQueries :
       HoldsId(Views(myOutcomes, activeProjects, allProjects)[q], RealId(3))

\* the queries a mutation affects: the project lists for a project update,
\* the three lists for a creation and for the update chained after it
Affected(m) ==
  IF oms[m].kind = "update" /\ ~oms[m].chained THEN ProjectQueries
  ELSE OutcomeQueries

\* C3: a settled mutation has invalidated each query it affects exactly once
\* (a creation that succeeds leaves the invalidation to the chained update)
C3_InvalidatedExactlyOnce ==
  \A m \in DOMAIN oms :
    (Done(m) /\ (oms[m].kind = "update" \/ oms[m].status = "error")) =>
      \A q \in Affected(m) : oms[m].inval[q] = 1

\* the context carries the value the cache of q had before onMutate
CarriesSnapshot(context, q, before) ==
  CASE q = "project.getActiveWithDetails" ->
         /\ "previousActiveProjects" \in DOMAIN context
         /\ context.previousActiveProjects = before.active
    [] q = "project.getAll" ->
         /\ "previousAllProjects" \in DOMAIN context
         /\ context.previousAllProjects = before.all
    [] q = "outcome.getMyOutcomes" ->
         /\ "previousOutcomes" \in DOMAIN context
         /\ context.previousOutcomes = before.mine

\* C4: the context a mutation hands to its error handler carries a snapshot,
\* taken before the first write, of every cache entry onMutate wrote
C4_SnapshotOfEveryWrittenEntry ==
  \A m \in DOMAIN oms :
    \A q \in oms[m].wrote : CarriesSnapshot(oms[m].context, q, oms[m].before)

\* C5: when onMutate has run, every list that holds the project shows the
\* selected outcomes (project update), and the outcome list and every list
\* that holds the project show the temporary outcome (creation)
C5_ProvisionalChangeWritten ==
  \A m \in DOMAIN oms :
    did = Did(m, "onMutate") =>
      LET views == Views(myOutcomes, activeProjects, allProjects)
          Holds(cache) ==
            \E k \in DOMAIN cache.list : cache.list[k].id = TheProject
      IN IF oms[m].kind = "update"
         THEN /\ Holds(activeProjects) =>
                   Range(Ids(OutcomesIn(activeProjects))) = Range(oms[m].outcomeIds)
              /\ Holds(allProjects) =>
                   Range(Ids(OutcomesIn(allProjects))) = Range(oms[m].outcomeIds)
         ELSE /\ HoldsId(myOutcomes.list, TempId(now))
              /\ Holds(activeProjects) => HoldsId(OutcomesIn(activeProjects), TempId(now))
              /\ Holds(allProjects) => HoldsId(OutcomesIn(allProjects), TempId(now))

\* C6: a failed mutation whose handlers have run has shown exactly one
\* failure notification, and it carries the message of the error
C6_OneFailureNotification ==
  \A m \in DOMAIN oms :
    (Done(m) /\ oms[m].status = "error") =>
      /\ Len(oms[m].failures) = 1
      /\ Includes(oms[m].failures[1].message, oms[m].error.message)

ShowsChange(n, q) ==
  LET shown == Views(myOutcomes, activeProjects, allProjects)[q]
  IN IF oms[n].kind = "update"
     THEN Range(Ids(shown)) = Range(oms[n].outcomeIds)
     ELSE HoldsId(shown, oms[n].context.tempId)

C20_RefetchCancelledBeforeWrite ==
  \A m \in DOMAIN oms :
    did = Did(m, "onMutate") => oms[m].wrote \cap refetching = {}

C15_ChainedSettledOnce ==
  \A m \in DOMAIN oms :
    (oms[m].chained /\ Done(m)) =>
      \A q \in OutcomeQueries : oms[m].inval[q] = 1

\* ------------------------------------------------------------------------
\* Properties of the bulk reschedule
\* ------------------------------------------------------------------------
InFlight(m) == m.status \in {"mutated", "pending"}

Settled(m) == m.status \in {"success", "error"}

HasConnectionText(message) ==
  \E k \in DOMAIN message :
    message[k] \in {"Server has closed the connection", "Connection reset by peer"}

FailedOnConnection(m) == m.status = "error" /\ HasConnectionText(m.error.message)

\* C8: during a bulk reschedule at most one action update is in flight, and
\* the next one is issued only when every earlier one has settled
C8_OneInFlight ==
  /\ Cardinality({k \in DOMAIN muts : InFlight(muts[k])}) <= 1
  /\ \A k \in DOMAIN muts : k < Len(muts) => Settled(muts[k])
  /\ pc = "mutate" => \A k \in DOMAIN muts : Settled(muts[k])

\* the second request is in flight after the first one settled
C8_Witness ==
  /\ Len(muts) = 2
  /\ muts[1].status = "error"
  /\ muts[2].status = "pending"

\* C9: every mutation but the first is issued after the 100 ms delay,
\* whatever the outcome of the one before, and no delay follows the last
C9_DelayBetweenMutations ==
  /\ \A k \in DOMAIN muts : k > 1 => muts[k].afterDelay
  /\ pc = "delay" => bIdx < Len(bIds)

\* C10: the ids are submitted in order; none is submitted after a failure
\* whose message contains one of the two connection texts; after any other
\* failure the loop goes on, so that it ends with every id submitted or with
\* a connection failure
C10_StopOnConnectionError ==
  /\ \A k \in DOMAIN muts : muts[k].id = bIds[k]
  /\ \A k \in DOMAIN muts : k < Len(muts) => ~FailedOnConnection(muts[k])
  /\ (pc \in {"finish", "done"} /\ bIds # <<>>) =>
       (Len(muts) = Len(bIds) \/ FailedOnConnection(Cur))

\* the loop stopped early on a message that contains the connection text
C10_Witness ==
  /\ pc = "done"
  /\ Len(muts) < Len(bIds)
  /\ FailedOnConnection(Cur)
  /\ Cur.error.message # ConnClosed


\* C12: the mutations of a bulk reschedule are the given ids in the given
\* order, each id submitted at most once, and a request that was sent is not
\* sent again: a settled mutation stays as it settled
C12_NoRetry ==
  [][/\ Len(muts') <= Len(bIds')
     /\ \A k \in DOMAIN muts' : muts'[k].id = bIds'[k]
     /\ \A j, k \in DOMAIN muts' : j # k => muts'[j].id # muts'[k].id
     /\ \A k \in DOMAIN muts :
          /\ Settled(muts[k]) => muts'[k].status = muts[k].status
          /\ muts[k].status = "pending" => muts'[k].status # "mutated"]_vars

\* the first request failed, the loop went on and ended without sending it again
C12_Witness ==
  /\ pc = "done"
  /\ Len(bIds) = 2
  /\ Len(muts) = 2
  /\ muts[1].status = "error"
  /\ muts[2].status = "success"

\* the notifications with the id of the progress notification
ProgressNotes == SelectSeq(notes, LAMBDA n : n.id = "bulk-reschedule")

\* a mutation was issued for every selected id and all of them succeeded
AllSucceeded ==
  /\ Len(muts) = Len(bIds)
  /\ \A k \in DOMAIN muts : muts[k].status = "success"

\* C16: a bulk reschedule of a non-empty list that is under way comes to its
\* end; there is one progress notification, loading until the end and then
\* green if a mutation was issued for every id and all succeeded, red 'Bulk
\* Update Failed' otherwise; once it is not loading it does not change again
C16_BulkTerminates ==
  /\ (pc \notin {"idle", "done"}) ~> (pc = "done")
  /\ [](bIds # <<>> =>
         /\ Len(ProgressNotes) = 1
         /\ ProgressNotes[1].loading <=> pc # "done"
         /\ pc = "done" =>
              IF AllSucceeded
              THEN ProgressNotes[1].color = "green"
              ELSE /\ ProgressNotes[1].color = "red"
                   /\ ProgressNotes[1].title = "Bulk Update Failed")
  /\ [][(ProgressNotes # <<>> /\ ~ProgressNotes[1].loading) =>
         ProgressNotes' = ProgressNotes]_vars

\* a bulk reschedule ended red after one mutation succeeded and one failed
C16_Witness ==
  /\ pc = "done"
  /\ Len(muts) = 2
  /\ muts[1].status = "success"
  /\ muts[2].status = "error"
  /\ ProgressNotes[1].color = "red"

\* the cached due date of action id (None when the action is not cached)
CachedDue(cache, id) ==
  IF \E i \in DOMAIN cache.list : cache.list[i].id = id
  THEN cache.list[CHOOSE i \in DOMAIN cache.list : cache.list[i].id = id].dueDate
  ELSE None

\* C17: the error handler of the current mutation of a bulk reschedule changes
\* the cached list in the entry of its own action only, whose due date goes
\* back to the one it had before the mutation; the actions updated with
\* success earlier in the loop keep the new date
C17_RollbackOnlyOwnAction ==
  [][(pc = "onError" /\ actionCache.defined) =>
       /\ actionCache'.defined
       /\ Len(actionCache'.list) = Len(actionCache.list)
       /\ \A i \in DOMAIN actionCache.list :
            LET old == actionCache.list[i]
                new == actionCache'.list[i]
            IN /\ new.id = old.id
               /\ new.name = old.name
               /\ old.id # Cur.id => new = old
               /\ old.id = Cur.id => new.dueDate = CachedDue(Cur.before, Cur.id)
       /\ \A j \in DOMAIN muts :
            (muts[j].status = "success" /\ bDate # Null
               /\ CachedDue(actionCache', muts[j].id) # None) =>
              CachedDue(actionCache', muts[j].id) = bDate]_vars

\* the second mutation failed and was rolled back: the first action shows the
\* new date, the second the old one
C17_Witness ==
  /\ pc = "onSettled"
  /\ Len(muts) = 2
  /\ muts[1].status = "success"
  /\ muts[2].status = "error"
  /\ CachedDue(actionCache, muts[1].id) = NewDate
  /\ CachedDue(actionCache, muts[2].id) = OldDate

\* C18: onMutate of an action update sets the due date of the cached action
\* with the id to the new date, or to null when none is given, and leaves all
\* else: the other actions, the other fields, the length and the order of the
\* list; a cache without that action, or without data, stays as it is
C18_OnMutateFrame ==
  [][pc = "mutate" =>
       LET id == bIds[bIdx]
           date == IF bDate = Null THEN Null ELSE bDate
       IN /\ ~actionCache.defined => actionCache' = actionCache
          /\ CachedDue(actionCache, id) = None => actionCache' = actionCache
          /\ actionCache.defined =>
               /\ actionCache'.defined
               /\ Len(actionCache'.list) = Len(actionCache.list)
               /\ \A i \in DOMAIN actionCache.list :
                    LET old == actionCache.list[i]
                        new == actionCache'.list[i]
                    IN /\ new.id = old.id
                       /\ new.name = old.name
                       /\ old.id # id => new = old
                       /\ old.id = id => new.dueDate = date]_vars

\* onMutate removed the due date of the second of two cached actions
C18_Witness ==
  /\ pc = "send"
  /\ bDate = Null
  /\ Cur.id = 2
  /\ actionCache.defined
  /\ Len(actionCache.list) = 2
  /\ CachedDue(actionCache, 2) = Null
  /\ CachedDue(actionCache, 1) = OldDate

\* C19: when a bulk reschedule of a non-empty list started on a project page
\* has finished, action.getProjectActions of the project was invalidated,
\* whether every mutation succeeded or one failed
C19_ProjectActionsInvalidated ==
  (pc = "done" /\ bIds # <<>> /\ projectId # None) =>
    invalidated["action.getProjectActions"] >= 1

====
